---- MODULE Spec2Model ----
(***************************************************************************)
(* State-machine model of the playback engine in src-tauri/src/player.rs:  *)
(* the decode thread (decode_loop), the command handlers that feed it      *)
(* (stream_file, loop_region, change_audio_device, next_track, pause,      *)
(* resume) and the device callback that drains the sink's ring buffer.     *)
(*                                                                         *)
(* Times are in centiseconds (a seek of 3 is 0.03 s), timestamps in frames *)
(* of the track's timebase, the transition clock in whole seconds, volumes *)
(* in percent.  get_peaks, the waveform pass, is modelled beside it; its   *)
(* window and its peaks array are kept by their lengths.                   *)
(***************************************************************************)
EXTENDS Integers, Sequences, FiniteSets, TLC

----------------------------------------------------------------------------
(* Bounds of the model *)

MaxCtrl == 3          \* control events sent over one run
MaxNext == 2          \* next-track requests sent over one run
RingCap == 2          \* packets the ring buffer holds
MaxSkips == 1         \* packets of one waveform pass that fail to decode

----------------------------------------------------------------------------
(* Program constants *)

PAUSED == 0
ACTIVE == 1
TransitionSecs == 5
InitialSampleRate == 44100
InitialChannels == 2
WindowSize == 4000
EmitEvery == 100
ExpectedChannels == 2

NoneN == 0 - 1        \* Option::None of a numeric option
NoPath == "nopath"    \* Option::None of a path
NoDev == "nodev"      \* Option::None of a device name

----------------------------------------------------------------------------
(* The environment: files, devices *)

\* a: 44100 Hz stereo, 3 packets; b: 48000 Hz stereo, 2 packets, frame count not
\* known; c: 44100 Hz mono, 1 packet; s: 44100 Hz stereo, one packet of 500 frames;
\* m does not exist; g is no audio file; u: its first track has no codec;
\* t: stereo, 120 packets; w: six channels, 110 packets; l: stereo, six minutes
\* in 3920 packets of 4096 frames
Paths == {"a", "b", "c"}
FileOpens(path) == path # "m"
FileProbes(path) == path # "g"
FileRate(path) == IF path = "b" THEN 48000 ELSE 44100
FileChannels(path) == CASE path = "c" -> 1 [] path = "w" -> 6 [] OTHER -> 2
FilePackets(path) ==
    CASE path = "a" -> 3 [] path = "b" -> 2 [] path = "t" -> 120 [] path = "w" -> 110
      [] path = "l" -> 3920 [] OTHER -> 1
FileKnowsFrames(path) == path # "b"
PacketDur(path) == IF path = "l" THEN 4096 ELSE 1152
FileFrames(path) == IF path = "s" THEN 500 ELSE FilePackets(path) * PacketDur(path)

\* the tracks of a file, TRUE for a track whose codec is not CODEC_TYPE_NULL
FileTracks(path) == IF path = "u" THEN <<FALSE, TRUE>> ELSE <<TRUE>>

\* FormatReader::default_track: the first track
DefaultTrack(tracks) == 1

\* get_codecs().make(&track.codec_params, ..) of the default track
FileDecodes(path) == FileTracks(path)[DefaultTrack(FileTracks(path))]

\* the frames of the i-th packet (from 0) of a file
PacketFrames(path, i) ==
    IF FileFrames(path) - i * PacketDur(path) < PacketDur(path)
    THEN FileFrames(path) - i * PacketDur(path)
    ELSE PacketDur(path)

\* X is the system default and takes both rates, Y takes 44100 only, Z does not
\* list its configurations
Devices == {"X", "Y", "Z"}
DefaultDevice == "X"
DeviceConfigsOk(d) == d # "Z"
DeviceRates(d) == CASE d = "X" -> {44100, 48000} [] d = "Y" -> {44100} [] OTHER -> {}
DeviceDefaultRate(d) == 44100

SeekVals == {0, 3}

\* Time::from(seconds) in the track's timebase; (end_pos * rate) as u64
ToTs(cs, rate) == (cs * rate) \div 100

----------------------------------------------------------------------------
VARIABLES
    \* decode_loop locals that live across sessions
    pc, path_str, path_str_clone, seek, end_pos, volume, audio_device_name,
    previous_audio_device_name, previous_sample_rate, previous_channels,
    audio_output, cancel_token, is_transition, is_reset,
    \* locals of one session
    p, track_id, seek_result, seek_ts, follow_system_output, end_pos_frame_idx,
    started_transition, elapsed, pos, packet_ts, written, is_paused,
    \* shared with the other threads
    decoding_active, player_control, next_track, ring, sink_playing,
    \* history
    out, offset, origin, sent, queued, applied, sid, keep_paused, linear,
    \* get_peaks: its position, its arguments, its locals, its result and the
    \* `waveform` event of its last step
    peaks_pc, peaks_file, peaks_cancel, reader, expected_peaks_size, window, peaks,
    total_count, result, waveform, decoded, skipped

peaksVars == <<peaks_pc, peaks_file, peaks_cancel, reader, expected_peaks_size, window,
               peaks, total_count, result, waveform, decoded, skipped>>

decodeVars == <<pc, path_str, path_str_clone, seek, end_pos, volume, audio_device_name,
                previous_audio_device_name, previous_sample_rate, previous_channels,
                audio_output, cancel_token, is_transition, is_reset,
                p, track_id, seek_result, seek_ts, follow_system_output, end_pos_frame_idx,
                started_transition, elapsed, pos, packet_ts, written, is_paused,
                decoding_active, player_control, next_track, ring, sink_playing,
                out, offset, origin, sent, queued, applied, sid, keep_paused, linear>>

vars == <<decodeVars, peaksVars>>

loopVars == <<path_str, seek, end_pos, volume, audio_device_name, cancel_token, is_reset>>
prevVars == <<previous_audio_device_name, previous_sample_rate, previous_channels>>
sessVars == <<p, track_id, seek_result, seek_ts, follow_system_output, end_pos_frame_idx,
              started_transition, elapsed, pos, packet_ts, written, is_paused>>
chanVars == <<player_control, next_track, sent, queued>>

NoSink == [state |-> "none", dev |-> NoDev, rate |-> 0, ch |-> 0]
ErrSink == [state |-> "err", dev |-> NoDev, rate |-> 0, ch |-> 0]

\* the arguments of the session's last guard.write
NoWrite == [ts |-> NoneN, ramp_up |-> 0, ramp_down |-> 0]

\* no file given to get_peaks yet; no `waveform` event sent by its last step
NoFile == "nofile"
NoWaveform == [values |-> NoneN, zeros |-> NoneN]

Init ==
    /\ pc = "top"
    /\ path_str = NoPath
    /\ path_str_clone = NoPath
    /\ seek = NoneN
    /\ end_pos = NoneN
    /\ volume = NoneN
    /\ audio_device_name = NoDev
    /\ previous_audio_device_name = ""
    /\ previous_sample_rate = InitialSampleRate
    /\ previous_channels = InitialChannels
    /\ audio_output = NoSink
    /\ cancel_token = FALSE
    /\ is_transition = FALSE
    /\ is_reset = TRUE
    /\ p = NoPath
    /\ track_id = 0
    /\ seek_result = "none"
    /\ seek_ts = 0
    /\ follow_system_output = FALSE
    /\ end_pos_frame_idx = 0
    /\ started_transition = FALSE
    /\ elapsed = 0
    /\ pos = 0
    /\ packet_ts = NoneN
    /\ written = NoWrite
    /\ is_paused = FALSE
    /\ decoding_active = ACTIVE
    /\ player_control = <<>>
    /\ next_track = <<>>
    /\ ring = <<>>
    /\ sink_playing = FALSE
    /\ out = {}
    /\ offset = NoneN
    /\ origin = "none"
    /\ sent = 0
    /\ queued = 0
    /\ applied = 0
    /\ sid = 0
    /\ keep_paused = FALSE
    /\ linear = NoneN
    /\ peaks_pc = "idle"
    /\ peaks_file = NoFile
    /\ peaks_cancel = FALSE
    /\ reader = 0
    /\ expected_peaks_size = 0
    /\ window = 0
    /\ peaks = 0
    /\ total_count = 0
    /\ result = "none"
    /\ waveform = NoWaveform
    /\ decoded = 0
    /\ skipped = 0

----------------------------------------------------------------------------
(* Control events and the commands that send them *)

Event(kind, path, sk, vol, dev, enabled, start, endp) ==
    [kind |-> kind, seq |-> sent + 1, path |-> path, seek |-> sk, volume |-> vol,
     dev |-> dev,
     enabled |-> enabled, start |-> start, endp |-> endp,
     paused |-> (decoding_active = PAUSED)]

Send(ev) ==
    /\ sent < MaxCtrl
    /\ player_control' = Append(player_control, ev)
    /\ sent' = sent + 1

\* AudioStreamer::pause
Pause ==
    /\ decoding_active = ACTIVE
    /\ decoding_active' = PAUSED
    /\ UNCHANGED <<peaksVars, pc, loopVars, path_str_clone, prevVars, audio_output, is_transition,
                   sessVars, chanVars, ring, sink_playing, out, origin, applied, linear, sid, offset,
                   keep_paused>>

\* atomic_wait::wake_all on the pause gate: a parked decode thread runs again
Woken(at) == IF at = "parked" THEN "afterpause" ELSE at

\* AudioStreamer::resume
Resume ==
    /\ decoding_active = PAUSED \/ pc = "parked"
    /\ decoding_active' = ACTIVE
    /\ pc' = Woken(pc)
    /\ keep_paused' = FALSE
    /\ UNCHANGED <<peaksVars, loopVars, path_str_clone, prevVars, audio_output, is_transition,
                   sessVars, chanVars, ring, sink_playing, out, origin, applied, linear, sid, offset>>

\* the stream_file command
StreamFileCmd(paths, seeks, vols, devs) ==
    /\ \E path \in paths, sk \in seeks, vol \in vols, dev \in devs :
          Send(Event("StreamFile", path, sk, vol, dev, FALSE, NoneN, NoneN))
    /\ UNCHANGED <<peaksVars, pc, loopVars, path_str_clone, prevVars, audio_output, is_transition,
                   sessVars, decoding_active, next_track, queued, ring, sink_playing,
                   out,
                   origin, applied, linear, sid, offset, keep_paused>>

\* loop_region
LoopOff == [enabled |-> FALSE, start |-> NoneN, endp |-> NoneN]
LoopOn(start, endp) == [enabled |-> TRUE, start |-> start, endp |-> endp]

LoopRegionCmd(requests) ==
    /\ \E r \in requests :
          Send(Event("LoopRegion", NoPath, NoneN, NoneN, NoDev, r.enabled, r.start, r.endp))
    /\ UNCHANGED <<peaksVars, pc, loopVars, path_str_clone, prevVars, audio_output, is_transition,
                   sessVars, decoding_active, next_track, queued, ring, sink_playing,
                   out,
                   origin, applied, linear, sid, offset, keep_paused>>

\* change_audio_device: send, then resume
ChangeAudioDeviceCmd(devs) ==
    /\ \E dev \in devs :
          Send(Event("ChangeAudioDevice", NoPath, NoneN, NoneN, dev, FALSE, NoneN, NoneN))
    /\ decoding_active' = ACTIVE
    /\ pc' = Woken(pc)
    /\ keep_paused' = FALSE
    /\ UNCHANGED <<peaksVars, loopVars, path_str_clone, prevVars, audio_output, is_transition,
                   sessVars, next_track, queued, ring, sink_playing, out, origin, applied, linear,
                   sid, offset>>

\* the next_track command
NextTrackCmd(paths, seeks, vols) ==
    /\ queued < MaxNext
    /\ queued' = queued + 1
    /\ \E path \in paths, sk \in seeks, vol \in vols :
          next_track' = Append(next_track, [path |-> path, seek |-> sk, volume |-> vol])
    /\ UNCHANGED <<peaksVars, pc, loopVars, path_str_clone, prevVars, audio_output, is_transition,
                   sessVars, decoding_active, player_control, sent, ring, sink_playing,
                   out, origin, applied, linear, sid, offset, keep_paused>>

\* the device callback takes the oldest packet out of the ring buffer
DeviceCallback ==
    /\ audio_output.state = "ok"
    /\ sink_playing
    /\ ring # <<>>
    /\ ring' = Tail(ring)
    /\ linear' = IF linear = NoneN \/ linear >= FilePackets(p) THEN linear ELSE linear + 1
    /\ UNCHANGED <<peaksVars, pc, loopVars, path_str_clone, prevVars, audio_output, is_transition,
                   sessVars, decoding_active, chanVars, sink_playing, out, origin,
                   applied, sid, offset, keep_paused>>

\* one second of wall time passes while a transition is timed
Tick ==
    /\ started_transition
    /\ elapsed < TransitionSecs
    /\ elapsed' = elapsed + 1
    /\ UNCHANGED <<peaksVars, pc, loopVars, path_str_clone, prevVars, audio_output, is_transition,
                   p, track_id, seek_result, seek_ts, follow_system_output, end_pos_frame_idx,
                   started_transition, pos, packet_ts,
                   written,
                   is_paused, decoding_active, chanVars, ring, sink_playing, out,
                   origin, applied, linear, sid, offset, keep_paused>>

----------------------------------------------------------------------------
(* The control-event handlers of decode_loop, as functions on its locals *)

Locals ==
    [path_str |-> path_str, seek |-> seek, end_pos |-> end_pos, volume |-> volume,
     audio_device_name |-> audio_device_name, cancel_token |-> cancel_token,
     is_reset |-> is_reset, origin |-> origin,
     flush |-> FALSE, pause |-> FALSE, store_paused |-> FALSE, panic |-> FALSE]

Panic(c) == [c EXCEPT !.panic = TRUE]

RecvNewest(q) == q[Len(q)]

\* std::sync::mpsc: recv and try_recv take the oldest message
RecvEvent(q) == Head(q)
RecvRest(q) == Tail(q)

\* waiting state, lines 414-420
WaitingStreamFile(c, req) ==
    IF req.path = NoPath \/ req.seek = NoneN \/ req.volume = NoneN THEN Panic(c)
    ELSE [c EXCEPT !.path_str = req.path, !.seek = req.seek, !.volume = req.volume,
                   !.audio_device_name = req.dev, !.origin = "stream"]

\* waiting state, lines 421-427
WaitingLoopRegion(c, req, clone) ==
    IF clone = NoPath \/ req.start = NoneN \/ req.endp = NoneN THEN Panic(c)
    ELSE [c EXCEPT !.path_str = clone, !.seek = req.start, !.end_pos = req.endp,
                   !.cancel_token = TRUE, !.origin = "loop"]

\* waiting state, lines 428-436
WaitingChangeAudioDevice(c, req, clone) ==
    [c EXCEPT !.audio_device_name = req.dev,
              !.path_str = IF clone # NoPath /\ c.path_str # NoPath THEN clone ELSE @,
              !.cancel_token = TRUE, !.is_reset = TRUE]

WaitingEvent(c, ev, clone) ==
    CASE ev.kind = "StreamFile" -> WaitingStreamFile(c, ev)
      [] ev.kind = "LoopRegion" -> WaitingLoopRegion(c, ev, clone)
      [] OTHER -> WaitingChangeAudioDevice(c, ev, clone)

\* packet loop, lines 682-694 and 737-749
DecodingStreamFile(c, req) ==
    IF req.path = NoPath \/ req.seek = NoneN \/ req.volume = NoneN THEN Panic(c)
    ELSE [c EXCEPT !.path_str = req.path, !.seek = req.seek, !.end_pos = NoneN,
                   !.volume = req.volume,
                   !.cancel_token = TRUE, !.flush = TRUE, !.is_reset = TRUE,
                   !.origin = "stream"]

\* packet loop, lines 695-707 and 750-762
DecodingLoopRegion(c, req, clone) ==
    IF (req.enabled /\ (req.start = NoneN \/ req.endp = NoneN)) \/ clone = NoPath
    THEN Panic(c)
    ELSE [c EXCEPT !.seek = IF req.enabled THEN req.start ELSE @,
                   !.end_pos = IF req.enabled THEN req.endp ELSE NoneN,
                   !.path_str = clone, !.cancel_token = TRUE, !.flush = TRUE,
                   !.is_reset = TRUE, !.origin = "loop"]

ChangeAudioDeviceNoCancel(c, req, clone) ==
    IF clone = NoPath THEN Panic(c)
    ELSE [c EXCEPT !.audio_device_name = req.dev, !.path_str = clone,
                   !.flush = TRUE, !.pause = TRUE, !.is_reset = TRUE,
                   !.origin = "device"]

\* packet loop, lines 708-716
DecodingChangeAudioDevice(c, req, clone) ==
    IF clone = NoPath THEN Panic(c)
    ELSE [c EXCEPT !.audio_device_name = req.dev, !.path_str = clone,
                   !.cancel_token = TRUE, !.flush = TRUE, !.pause = TRUE,
                   !.is_reset = TRUE, !.origin = "device"]

\* packet loop after the pause gate, lines 763-779
PausedChangeAudioDevice(c, req, clone, paused) ==
    IF clone = NoPath THEN Panic(c)
    ELSE [c EXCEPT !.audio_device_name = req.dev, !.path_str = clone,
                   !.cancel_token = TRUE, !.flush = TRUE, !.pause = TRUE,
                   !.is_reset = TRUE, !.store_paused = paused, !.origin = "device"]

\* lines 680-718
ActiveEvent(c, ev, clone) ==
    CASE ev.kind = "StreamFile" -> DecodingStreamFile(c, ev)
      [] ev.kind = "LoopRegion" -> DecodingLoopRegion(c, ev, clone)
      [] OTHER -> DecodingChangeAudioDevice(c, ev, clone)

\* lines 735-781
AfterPauseEvent(c, ev, clone, paused) ==
    CASE ev.kind = "StreamFile" -> DecodingStreamFile(c, ev)
      [] ev.kind = "LoopRegion" -> DecodingLoopRegion(c, ev, clone)
      [] OTHER -> PausedChangeAudioDevice(c, ev, clone, paused)

\* the locals, the sink and the history after a handler has run
Apply(c) ==
    /\ path_str' = c.path_str
    /\ seek' = c.seek
    /\ end_pos' = c.end_pos
    /\ volume' = c.volume
    /\ audio_device_name' = c.audio_device_name
    /\ cancel_token' = c.cancel_token
    /\ is_reset' = c.is_reset
    /\ origin' = c.origin

----------------------------------------------------------------------------
(* The decode thread: decode_loop *)

\* lines 403-408: the head of the outer loop
Top ==
    /\ pc = "top"
    /\ cancel_token' = FALSE
    /\ path_str_clone' = path_str
    /\ IF path_str = NoPath
       THEN is_transition' = FALSE /\ pc' = "recv"
       ELSE is_transition' = is_transition /\ pc' = "setup"
    /\ out' = {}
    /\ UNCHANGED <<peaksVars, path_str, seek, end_pos, volume, audio_device_name, is_reset, prevVars,
                   audio_output, sessVars, decoding_active, chanVars, ring,
                   sink_playing, origin, applied, linear, sid, offset, keep_paused>>

\* the packet the device plays next: the reader's position less the session's
\* packets still in the ring buffer
Playhead ==
    LET buffered == Cardinality({i \in DOMAIN ring : ring[i] = sid})
    IN  IF pos > buffered THEN pos - buffered ELSE 0

\* the history of one received control event; linear is the packet playback
\* would be at had no loop been enabled, kept from the first enable to the disable
Received(ev) ==
    /\ player_control' = RecvRest(player_control)
    /\ applied' = ev.seq
    /\ keep_paused' = IF ev.kind = "ChangeAudioDevice" /\ ev.paused /\ pc # "recv"
                      THEN TRUE ELSE keep_paused
    /\ linear' = CASE ev.kind = "StreamFile" -> NoneN
                   [] ev.kind = "LoopRegion" /\ ~ev.enabled -> NoneN
                   [] ev.kind = "LoopRegion" /\ ev.enabled /\ pc # "recv"
                        /\ linear = NoneN -> Playhead
                   [] OTHER -> linear

\* lines 409-438: the waiting state, blocked on the control channel
WaitForFile ==
    /\ pc = "recv"
    /\ player_control # <<>>
    /\ LET ev == RecvEvent(player_control)
           c == WaitingEvent(Locals, ev, path_str_clone)
       IN  /\ Received(ev)
           /\ IF c.panic
              THEN pc' = "crashed" /\ UNCHANGED <<loopVars, origin>>
              ELSE pc' = "top" /\ Apply(c)
    /\ out' = {}
    /\ UNCHANGED <<peaksVars, path_str_clone, prevVars, audio_output, is_transition, sessVars,
                   decoding_active, next_track, sent, queued, ring, sink_playing, sid, offset>>

----------------------------------------------------------------------------
(* Session setup, lines 439-674 *)

\* lines 502-525: the timestamp the initial seek asks for
SeekTsAsked(path, sk, res) ==
    IF sk # NoneN /\ ToTs(sk, FileRate(path)) < FileFrames(path)
    THEN ToTs(sk, FileRate(path))
    ELSE 0

SeekTs(path, sk, res) ==
    IF sk # NoneN /\ res = "ok" /\ ToTs(sk, FileRate(path)) < FileFrames(path)
    THEN ToTs(sk, FileRate(path))
    ELSE 0

\* lines 963-967
FirstSupportedTrack(tracks) ==
    IF \E i \in DOMAIN tracks : tracks[i]
    THEN CHOOSE i \in DOMAIN tracks : tracks[i] /\ \A j \in 1..(i - 1) : ~tracks[j]
    ELSE NoneN

\* lines 494 and 511-514: track_id is the default track's id, and the first
\* supported track's after a seek that fails with ResetRequired
TrackAfterSeek(tracks, sk, res) ==
    IF sk # NoneN /\ res = "reset" THEN FirstSupportedTrack(tracks)
    ELSE DefaultTrack(tracks)

\* the packet an accurate seek leaves the reader at: the one holding the timestamp
SeekPos(path, ts) == ts \div PacketDur(path)

\* store::load_settings: no settings, or an output device and the follow flag
NoSettings == [ok |-> FALSE, output_device |-> NoDev, follow |-> FALSE]
Settings(devs) == {NoSettings} \cup [ok : {TRUE}, output_device : devs, follow : BOOLEAN]

\* output::get_device_by_name
GetDeviceByName(name) == IF name = NoDev THEN DefaultDevice ELSE name

\* lines 574-594: does a supported configuration of the device take the rate
SupportsSampleRate(dev, rate) == DeviceConfigsOk(dev) /\ rate \in DeviceRates(dev)

\* lines 595-601: the device whose name is compared with the previous session's
ComparedDevice(dev) == IF DeviceConfigsOk(dev) THEN dev ELSE GetDeviceByName(NoDev)

ResetIgnoresChannels(prev_name, dev, supports, rate, prev_rate, ch, prev_ch) ==
    \/ prev_name # dev
    \/ supports /\ rate # prev_rate

\* lines 604-606
ShouldResetAudio(prev_name, dev, supports, rate, prev_rate, ch, prev_ch) ==
    \/ prev_name # dev
    \/ supports /\ rate # prev_rate
    \/ ch # prev_ch

\* line 613
OpensSink(ao, should_reset) == ao.state = "none" \/ should_reset

\* output::try_open: the sink takes the rate when the device supports it
OpenSink(dev, rate, ch, res) ==
    IF res = "ok"
    THEN [state |-> "ok", dev |-> dev,
          rate |-> IF SupportsSampleRate(dev, rate) THEN rate ELSE DeviceDefaultRate(dev),
          ch |-> ch]
    ELSE ErrSink

\* lines 635-646
SetupEvents(transition) ==
    IF transition THEN {}
    ELSE {"reset_control", "device_change", "audio_device_changed", "sample_offset"}

\* lines 641-645: the sample offset sent to the sink at setup
SetupOffset(transition, ts, ch, old) == IF transition THEN old ELSE ts * ch

\* lines 648-652
EndPosFrameIdx(ep, rate) == IF ep # NoneN THEN ToTs(ep, rate) ELSE 0

\* lines 444-481: a file that cannot be opened ends the thread, one that cannot be
\* probed ends the session
SetupFails ==
    /\ pc = "setup"
    /\ ~(FileOpens(path_str) /\ FileProbes(path_str) /\ FileDecodes(path_str))
    /\ IF ~FileOpens(path_str) THEN pc' = "crashed" /\ path_str' = path_str
       ELSE IF ~FileProbes(path_str) THEN pc' = "top" /\ path_str' = NoPath
       ELSE pc' = "crashed" /\ path_str' = NoPath
    /\ out' = {}
    /\ UNCHANGED <<peaksVars, path_str_clone, seek, end_pos, volume, audio_device_name,
                   cancel_token, is_reset, prevVars, audio_output, is_transition, sessVars,
                   decoding_active, chanVars, ring, sink_playing, origin, applied, linear, sid, offset,
                   keep_paused>>

\* lines 483-674
SessionSetup(seeking, settings, opening) ==
    /\ pc = "setup"
    /\ FileOpens(path_str) /\ FileProbes(path_str) /\ FileDecodes(path_str)
    /\ \E res \in seeking, st \in settings, open \in opening :
         LET path == path_str
             rate == FileRate(path)
             ch == FileChannels(path)
             name == IF st.ok THEN st.output_device ELSE audio_device_name
             dev == GetDeviceByName(IF st.ok /\ st.follow THEN NoDev ELSE name)
             supports == SupportsSampleRate(dev, rate)
             should_reset == ShouldResetAudio(previous_audio_device_name,
                                              ComparedDevice(dev), supports,
                                              rate, previous_sample_rate, ch,
                                              previous_channels)
             opens == OpensSink(audio_output, should_reset)
             ao == IF opens THEN OpenSink(dev, rate, ch, open) ELSE audio_output
             ts == SeekTs(path, seek, res)
         IN  /\ opens \/ open = "ok"
             /\ path_str' = NoPath
             /\ audio_device_name' = name
             /\ previous_sample_rate' = rate
             /\ previous_channels' = ch
             /\ previous_audio_device_name' = dev
             /\ audio_output' = ao
             /\ p' = path
             /\ track_id' = TrackAfterSeek(FileTracks(path), seek, res)
             /\ seek_result' = IF seek = NoneN THEN "none" ELSE res
             /\ seek_ts' = ts
             /\ follow_system_output' = (st.ok /\ st.follow)
             /\ pos' = SeekPos(path, ts)
             /\ end_pos_frame_idx' = EndPosFrameIdx(end_pos, rate)
             /\ offset' = SetupOffset(is_transition, ts, ch, offset)
             /\ out' = SetupEvents(is_transition) \cup
                         (IF FileKnowsFrames(path) THEN {"file-samples"} ELSE {}) \cup
                         (IF opens THEN {"open"} ELSE {})
             /\ IF ao.state = "ok"
                THEN /\ pc' = "poll"
                     /\ sink_playing' = TRUE
                     /\ ring' = IF opens \/ is_reset THEN <<>> ELSE ring
                ELSE /\ pc' = "top"
                     /\ sink_playing' = FALSE
                     /\ ring' = <<>>
    /\ started_transition' = FALSE
    /\ elapsed' = 0
    /\ packet_ts' = NoneN
    /\ written' = NoWrite
    /\ is_paused' = FALSE
    /\ sid' = sid + 1
    /\ UNCHANGED <<peaksVars, path_str_clone, seek, end_pos, volume, cancel_token, is_reset,
                   is_transition,
                   decoding_active, chanVars, origin, applied, linear, keep_paused>>

----------------------------------------------------------------------------
(* The packet loop, lines 677-911 *)

\* the sink and the ring buffer after a handler: guard.flush(), guard.pause()
SinkAfter(c, resumes) ==
    /\ ring' = IF c.flush THEN <<>> ELSE ring
    /\ sink_playing' = IF resumes THEN TRUE ELSE IF c.pause THEN FALSE ELSE sink_playing

\* lines 678-718: the non-blocking poll at the head of each iteration
PollControl ==
    /\ pc = "poll"
    /\ IF player_control = <<>>
       THEN UNCHANGED <<loopVars, origin, player_control, applied, linear, keep_paused, ring,
                        sink_playing>> /\ pc' = "pausecheck"
       ELSE LET ev == RecvEvent(player_control)
                c == ActiveEvent(Locals, ev, path_str_clone)
            IN  /\ Received(ev)
                /\ IF c.panic
                   THEN pc' = "crashed" /\ UNCHANGED <<loopVars, origin, ring, sink_playing>>
                   ELSE pc' = "pausecheck" /\ Apply(c) /\ SinkAfter(c, FALSE)
    /\ out' = {}
    /\ UNCHANGED <<peaksVars, path_str_clone, prevVars, audio_output, is_transition, sessVars,
                   decoding_active, next_track, sent, queued, sid, offset>>

\* lines 720-728: the load of the pause gate
PauseCheck ==
    /\ pc = "pausecheck"
    /\ pc' = "wait"
    /\ is_paused' = (decoding_active = PAUSED)
    /\ sink_playing' = IF decoding_active = PAUSED THEN FALSE ELSE sink_playing
    /\ out' = IF decoding_active = PAUSED THEN {"paused"} ELSE {}
    /\ UNCHANGED <<peaksVars, loopVars, path_str_clone, prevVars, audio_output, is_transition,
                   p, track_id, seek_result, seek_ts, follow_system_output, end_pos_frame_idx,
                   started_transition, elapsed, pos,
                   packet_ts, written, decoding_active, chanVars, ring, origin, applied, linear, sid, offset,
                   keep_paused>>

\* atomic_wait::wait(&decoding_active, PAUSED) returns at once unless the value is PAUSED
WaitReturns(value) == value # PAUSED

\* line 731: the wait on the pause gate
PauseGate ==
    /\ pc = "wait"
    /\ pc' = IF WaitReturns(decoding_active) THEN "afterpause" ELSE "parked"
    /\ out' = {}
    /\ UNCHANGED <<peaksVars, loopVars, path_str_clone, prevVars, audio_output, is_transition,
                   sessVars, decoding_active, chanVars, ring, sink_playing, origin,
                   applied, linear, sid, offset, keep_paused>>

\* line 731: the wait is called once and not in a loop, and it may return without a
\* wake_all (a futex wait returns spuriously)
SpuriousWake ==
    /\ pc = "parked"
    /\ pc' = "afterpause"
    /\ out' = {}
    /\ UNCHANGED <<peaksVars, loopVars, path_str_clone, prevVars, audio_output, is_transition,
                   sessVars, decoding_active, chanVars, ring, sink_playing, origin,
                   applied, linear, sid, offset, keep_paused>>

\* lines 733-790: the poll after a pause, `playing`, the cancellation check
AfterPause ==
    /\ pc = "afterpause"
    /\ IF is_paused /\ player_control # <<>>
       THEN LET ev == RecvEvent(player_control)
                c == AfterPauseEvent(Locals, ev, path_str_clone, is_paused)
            IN  /\ Received(ev)
                /\ IF c.panic
                   THEN /\ pc' = "crashed"
                        /\ UNCHANGED <<loopVars, origin, ring, sink_playing,
                                       decoding_active>>
                        /\ out' = {}
                   ELSE /\ Apply(c)
                        /\ SinkAfter(c, TRUE)
                        /\ decoding_active' = IF c.store_paused THEN PAUSED
                                              ELSE decoding_active
                        /\ pc' = IF c.cancel_token THEN "top" ELSE "read"
                        /\ out' = {"playing"}
       ELSE /\ UNCHANGED <<loopVars, origin, player_control, applied, linear, keep_paused, ring,
                           decoding_active>>
            /\ sink_playing' = IF is_paused THEN TRUE ELSE sink_playing
            /\ pc' = IF cancel_token THEN "top" ELSE "read"
            /\ out' = {"playing"}
    /\ UNCHANGED <<peaksVars, path_str_clone, prevVars, audio_output, is_transition, sessVars,
                   next_track, sent, queued, sid, offset>>

\* lines 804-825: the reader after a packet, seeked back to the loop start when the
\* packet is past the loop end
LoopWraps(ep, ts, end_idx) == ep # NoneN /\ ts > end_idx

ReaderStays(path, at, wraps, sk) == at

ReaderAfter(path, at, wraps, sk) ==
    IF wraps /\ ToTs(sk, FileRate(path)) < FileFrames(path)
    THEN SeekPos(path, ToTs(sk, FileRate(path)))
    ELSE at + 1

TransitionAtOnce(secs) == TRUE

\* line 841
TransitionElapsed(secs) == secs >= TransitionSecs

\* lines 837-878: the events the transition manager sends after a decoded packet
TransitionEvents(transition, started, secs, ep, meta) ==
    IF transition /\ started /\ TransitionElapsed(secs)
    THEN (IF ep # NoneN THEN {"sample_offset"} ELSE {}) \cup
         (IF meta THEN {"song_change", "reset_control", "sample_offset"} ELSE {})
    ELSE {}

\* lines 842-871: the sample offset the transition manager sends, the later of the
\* two sends when both are made
TransitionOffset(fires, ep, meta, sts, prev_ch, ch, old) ==
    IF fires /\ meta THEN sts * ch
    ELSE IF fires /\ ep # NoneN THEN sts * prev_ch
    ELSE old

EveryErrorEndsSession(dec) == "top"

\* lines 906-909: a DecodeError is logged and the loop goes on, any other error
\* breaks out of the packet loop
AfterDecodeError(dec) == IF dec = "decode_error" THEN "poll" ELSE "top"

\* lines 792-909: read a packet, wrap the loop, decode, time the transition
ReadPacket(reading, decoding) ==
    /\ pc = "read"
    /\ IF pos >= FilePackets(p)
       THEN /\ pc' = "eos"
            /\ out' = {}
            /\ UNCHANGED <<is_transition, started_transition, elapsed, pos, packet_ts,
                           offset>>
       ELSE \E rd \in reading, dec \in decoding, meta \in BOOLEAN :
            LET ts == pos * PacketDur(p)
                wraps == LoopWraps(end_pos, ts, end_pos_frame_idx)
                transition == is_transition \/ wraps
                fires == transition /\ started_transition /\ TransitionElapsed(elapsed)
            IN  IF rd = "error"
                THEN /\ dec = "ok" /\ meta
                     /\ pc' = "top"
                     /\ out' = {}
                     /\ UNCHANGED <<is_transition, started_transition, elapsed, pos,
                                    packet_ts, offset>>
                ELSE /\ pos' = ReaderAfter(p, pos, wraps, seek)
                     /\ packet_ts' = ts
                     /\ IF dec = "ok"
                        THEN /\ meta \/ fires
                             /\ pc' = "write"
                             /\ out' = TransitionEvents(transition, started_transition,
                                                        elapsed, end_pos, meta)
                             /\ is_transition' = (transition /\ ~fires)
                             /\ started_transition' = IF transition THEN ~fires
                                                      ELSE started_transition
                             /\ elapsed' = IF transition /\ ~started_transition THEN 0
                                           ELSE IF fires THEN 0 ELSE elapsed
                             /\ offset' = TransitionOffset(fires, end_pos, meta, seek_ts,
                                                           previous_channels,
                                                           FileChannels(p), offset)
                        ELSE /\ meta
                             /\ pc' = AfterDecodeError(dec)
                             /\ out' = IF dec = "decode_error" THEN {"decode_error"}
                                       ELSE {}
                             /\ is_transition' = transition
                             /\ UNCHANGED <<started_transition, elapsed, offset>>
    /\ UNCHANGED <<peaksVars, loopVars, path_str_clone, prevVars, audio_output, p,
                   track_id, seek_result, seek_ts, follow_system_output,
                   end_pos_frame_idx, written, is_paused, decoding_active, chanVars,
                   ring, sink_playing, origin, applied, linear, sid, keep_paused>>

WritesEveryPacket(ts, seeked) == TRUE

\* line 889
WritesPacket(ts, seeked) == ts >= seeked

\* line 894: frames - packet.dur on u64 goes below zero
Underflows(frames, dur) == frames < dur

\* what a build does with the subtraction below zero: a debug build panics, a
\* release build wraps
Builds == {"debug", "release"}

RampDownAlways(ts, frames, dur) == TRUE

\* line 894: packet.ts >= frames - packet.dur; a wrapped difference, 2^64 less the
\* shortfall, is above every timestamp
RampDownAt(ts, frames, dur) == IF Underflows(frames, dur) THEN FALSE ELSE ts >= frames - dur

\* lines 890-899: ramp_up_smpls and ramp_down_smpls of a written packet
Ramps(path, ts) ==
    IF ~FileKnowsFrames(path) THEN [ramp_up |-> 0, ramp_down |-> 0]
    ELSE IF RampDownAt(ts, FileFrames(path), PacketDur(path))
         THEN [ramp_up |-> 0, ramp_down |-> PacketDur(path)]
    ELSE IF ts < PacketDur(path) THEN [ramp_up |-> PacketDur(path), ramp_down |-> 0]
    ELSE [ramp_up |-> 0, ramp_down |-> 0]

\* lines 886-902: the write to the ring buffer, which waits while the buffer is full
WritePacket ==
    /\ pc = "write"
    /\ IF ~cancel_token /\ WritesPacket(packet_ts, seek_ts)
       THEN \E build \in Builds :
            LET under == FileKnowsFrames(p) /\ Underflows(FileFrames(p), PacketDur(p))
                r == Ramps(p, packet_ts)
            IN  /\ under \/ build = "release"
                /\ IF under /\ build = "debug"
                   THEN /\ pc' = "crashed"
                        /\ out' = {}
                        /\ UNCHANGED <<ring, written>>
                   ELSE /\ Len(ring) < RingCap
                        /\ ring' = Append(ring, sid)
                        /\ written' = [ts |-> packet_ts, ramp_up |-> r.ramp_up,
                                       ramp_down |-> r.ramp_down]
                        /\ out' = {"write"}
                        /\ pc' = "poll"
       ELSE /\ UNCHANGED <<ring, written>>
            /\ out' = {}
            /\ pc' = "poll"
    /\ UNCHANGED <<peaksVars, loopVars, path_str_clone, prevVars, audio_output, is_transition,
                   p, track_id, seek_result, seek_ts, follow_system_output, end_pos_frame_idx,
                   started_transition, elapsed, pos,
                   packet_ts, is_paused, decoding_active, chanVars, sink_playing,
                   origin, applied, linear, sid, offset, keep_paused>>

----------------------------------------------------------------------------
(* End of stream, lines 914-951 *)

NoRequest == [path |-> NoPath, seek |-> NoneN, volume |-> NoneN]

\* lines 931-932: request.seek.unwrap(), request.volume.unwrap()
Absent(request) == request.seek = NoneN \/ request.volume = NoneN

KeepsFirstRequest(q) == IF q = <<>> THEN NoRequest ELSE q[1]

\* lines 920-926: the queue is drained and the last request kept
DrainNextTrack(q) == IF q = <<>> THEN NoRequest ELSE q[Len(q)]

EndOfStream ==
    /\ pc = "eos"
    /\ next_track' = <<>>
    /\ LET request == DrainNextTrack(next_track)
       IN  IF next_track # <<>> /\ request.path # NoPath
           THEN /\ is_transition' = TRUE
                /\ path_str' = request.path
                /\ seek' = request.seek
                /\ volume' = request.volume
                /\ is_reset' = IF Absent(request) THEN is_reset ELSE FALSE
                /\ origin' = "next"
                /\ linear' = NoneN
                /\ pc' = IF Absent(request) THEN "crashed" ELSE "top"
           ELSE /\ pc' = IF next_track # <<>> THEN "drain" ELSE "top"
                /\ UNCHANGED <<is_transition, path_str, seek, volume, is_reset, origin,
                               linear>>
    /\ out' = {}
    /\ UNCHANGED <<peaksVars, path_str_clone, end_pos, audio_device_name, cancel_token, prevVars,
                   audio_output, sessVars, decoding_active, player_control, sent, queued, ring,
                   sink_playing, applied, sid, offset, keep_paused>>

\* lines 938-945: wait for the buffer to empty, pause the sink, `stopped`
DrainWait ==
    /\ pc = "drain"
    /\ ring = <<>>
    /\ sink_playing' = FALSE
    /\ out' = {"stopped"}
    /\ pc' = "top"
    /\ UNCHANGED <<peaksVars, loopVars, path_str_clone, prevVars, audio_output, is_transition,
                   sessVars, decoding_active, chanVars, ring, origin, applied, linear, sid, offset,
                   keep_paused>>

----------------------------------------------------------------------------
(* The mutexes of the decode thread.  A MutexGuard is held for its lexical scope,
   so what the thread holds is a function of where it is. *)

\* line 410: the guard of player_control_receiver.try_lock() is a temporary of the
\* statement that calls recv() on it; line 654: `receiver` is bound for the rest of
\* the session's block, to line 955
HoldsReceiverLock(at) == at = "recv" \/ at \in {"poll", "pausecheck", "wait", "parked",
                                                "afterpause", "read", "write", "eos",
                                                "drain"}

\* lines 659-954: `guard`, the lock on the audio output, from the start of the
\* packet loop to the end of the end-of-stream handling
HoldsOutputLock(at) == at \in {"poll", "pausecheck", "wait", "parked", "afterpause",
                                "read", "write", "eos", "drain"}

\* the decode thread is suspended: in recv() on an empty channel (410), in
\* atomic_wait::wait (731), in guard.write on a full ring buffer (900), in the
\* sleep of the drain wait (940)
Suspended ==
    \/ pc = "recv" /\ player_control = <<>>
    \/ pc = "parked"
    \/ pc = "write" /\ ~cancel_token /\ WritesPacket(packet_ts, seek_ts)
                    /\ Len(ring) >= RingCap
    \/ pc = "drain" /\ ring # <<>>

----------------------------------------------------------------------------
(* The waveform pass: get_peaks, lines 969-1110 *)

\* lines 1031-1032: the length the progressive events are padded to
ExpectedPeaksSize(frames) == (frames * ExpectedChannels) \div WindowSize

\* lines 974-1038: open, probe, default track, decoder, expected_peaks_size
GetPeaks(paths) ==
    /\ peaks_pc = "idle"
    /\ \E path \in paths :
         /\ peaks_file' = path
         /\ IF ~FileOpens(path)
            THEN peaks_pc' = "done" /\ result' = "panic" /\ expected_peaks_size' = 0
            ELSE IF ~FileProbes(path)
            THEN peaks_pc' = "done" /\ result' = "error" /\ expected_peaks_size' = 0
            ELSE IF ~FileDecodes(path) \/ ~FileKnowsFrames(path)
            THEN peaks_pc' = "done" /\ result' = "panic" /\ expected_peaks_size' = 0
            ELSE /\ peaks_pc' = "next"
                 /\ result' = "none"
                 /\ expected_peaks_size' = ExpectedPeaksSize(FileFrames(path))
    /\ reader' = 0
    /\ window' = 0
    /\ peaks' = 0
    /\ total_count' = 0
    /\ waveform' = NoWaveform
    /\ UNCHANGED <<decodeVars, peaks_cancel, decoded, skipped>>

\* CancellationToken::cancel on the token handed to get_peaks
CancelPeaks ==
    /\ peaks_pc \in {"next", "samples"}
    /\ ~peaks_cancel
    /\ peaks_cancel' = TRUE
    /\ waveform' = NoWaveform
    /\ UNCHANGED <<decodeVars, peaks_pc, peaks_file, reader, expected_peaks_size, window,
                   peaks, total_count, result, decoded, skipped>>

CancelIgnored(token, dec) ==
    CASE dec = "ok" -> "samples"
      [] dec = "decode_error" -> "next"
      [] OTHER -> "error"

\* lines 1051-1088: after decoder.decode: the token is looked at once a packet is
\* decoded, a DecodeError is logged and the loop goes on, another error ends it
AfterDecode(token, dec) ==
    CASE dec = "ok" /\ token -> "cancelled"
      [] dec = "ok" -> "samples"
      [] dec = "decode_error" -> "next"
      [] OTHER -> "error"

\* lines 1041-1055 and 1084-1109: the next packet, its decoding, the look at the
\* token, the result of the pass
NextPeaksPacket(reading, decoding) ==
    /\ peaks_pc = "next"
    /\ IF reader >= FilePackets(peaks_file)
       THEN /\ peaks_pc' = "done"
            /\ result' = "peaks"
            /\ UNCHANGED <<reader, skipped>>
       ELSE \E rd \in reading, dec \in decoding :
            LET to == IF rd = "error" THEN "error" ELSE AfterDecode(peaks_cancel, dec)
            IN  /\ rd = "error" => dec = "ok"
                /\ to = "next" => skipped < MaxSkips
                /\ peaks_pc' = IF to \in {"next", "samples"} THEN to ELSE "done"
                /\ result' = IF to \in {"next", "samples"} THEN result ELSE to
                /\ reader' = IF rd = "error" THEN reader ELSE reader + 1
                /\ skipped' = IF to = "next" THEN skipped + 1 ELSE skipped
    /\ waveform' = NoWaveform
    /\ UNCHANGED <<decodeVars, peaks_file, peaks_cancel, expected_peaks_size, window, peaks,
                   total_count, decoded>>

Smaller(a, b) == IF a < b THEN a ELSE b

\* lines 1063-1070: n samples go through the window: a sample is pushed while the
\* window holds fewer than 4000 (the samples that find room are taken together);
\* the sample that finds it full is answered with a push of the RMS to peaks and
\* a clear of the window
RECURSIVE Windowed(_, _, _)
Windowed(w, pk, n) ==
    IF n = 0 THEN [window |-> w, peaks |-> pk]
    ELSE IF w < WindowSize
         THEN LET k == Smaller(n, WindowSize - w) IN Windowed(w + k, pk, n - k)
         ELSE Windowed(0, pk + 1, n - 1)

\* line 1075: expected_peaks_size.saturating_sub(peaks.len())
SaturatingSub(a, b) == IF a > b THEN a - b ELSE 0

\* lines 1075-1078: the progressive event, the peaks so far and the zeros after them
Waveform(expected, pk) == [values |-> pk, zeros |-> SaturatingSub(expected, pk)]

\* lines 1057-1082: the samples of the decoded packet, and every 101st packet a
\* `waveform` event
PeaksSamples ==
    /\ peaks_pc = "samples"
    /\ LET n == PacketFrames(peaks_file, reader - 1) * FileChannels(peaks_file)
           after == Windowed(window, peaks, n)
       IN  /\ window' = after.window
           /\ peaks' = after.peaks
           /\ decoded' = decoded + n
           /\ IF total_count + 1 > EmitEvery
              THEN /\ total_count' = 0
                   /\ waveform' = Waveform(expected_peaks_size, after.peaks)
              ELSE /\ total_count' = total_count + 1
                   /\ waveform' = NoWaveform
    /\ peaks_pc' = "next"
    /\ UNCHANGED <<decodeVars, peaks_file, peaks_cancel, reader, expected_peaks_size,
                   result, skipped>>

----------------------------------------------------------------------------
(* The engine under control commands: one file, seeks, loop regions, device
   changes, pause and resume *)

ControlStreamFile == StreamFileCmd({"a"}, SeekVals, {50}, {NoDev})
ControlLoopRegion == LoopRegionCmd({LoopOff, LoopOn(0, 3), LoopOn(3, 3)})
ControlChangeAudioDevice == ChangeAudioDeviceCmd({NoDev, "Y"})
ControlSessionSetup == SessionSetup({"ok"}, {NoSettings}, {"ok"})
ControlReadPacket == ReadPacket({"ok"}, {"ok"})

NextControl ==
    \/ Pause
    \/ Resume
    \/ ControlStreamFile
    \/ ControlLoopRegion
    \/ ControlChangeAudioDevice
    \/ DeviceCallback
    \/ Top
    \/ WaitForFile
    \/ ControlSessionSetup
    \/ PollControl
    \/ PauseCheck
    \/ PauseGate
    \/ SpuriousWake
    \/ AfterPause
    \/ ControlReadPacket
    \/ WritePacket
    \/ EndOfStream

Spec == Init /\ [][NextControl]_vars

(* Gapless playback: a track, the next-track queue, the transition clock *)

GaplessStreamFile == StreamFileCmd({"a"}, {0}, {50}, {NoDev, "Y"})
GaplessNextTrack == NextTrackCmd({"b", "g", "m", NoPath}, {0}, {50})
GaplessSessionSetup == SessionSetup({"ok"}, {NoSettings}, {"ok"})
GaplessReadPacket == ReadPacket({"ok"}, {"ok"})

NextGapless ==
    \/ GaplessStreamFile
    \/ GaplessNextTrack
    \/ DeviceCallback
    \/ Tick
    \/ Top
    \/ WaitForFile
    \/ SetupFails
    \/ GaplessSessionSetup
    \/ PollControl
    \/ PauseCheck
    \/ PauseGate
    \/ AfterPause
    \/ GaplessReadPacket
    \/ WritePacket
    \/ EndOfStream
    \/ DrainWait

SpecGapless == Init /\ [][NextGapless]_vars

(* The sink over sessions of different files and devices: settings, device
   changes, failing opens *)

SinkStreamFile == StreamFileCmd(Paths, {0}, {50}, {NoDev, "Y", "Z"})
SinkChangeAudioDevice == ChangeAudioDeviceCmd({"X", "Y"})
SinkSessionSetup == SessionSetup({"ok"}, Settings({NoDev, "Y"}), {"ok", "err"})
SinkReadPacket == ReadPacket({"ok"}, {"ok"})

NextSink ==
    \/ SinkStreamFile
    \/ SinkChangeAudioDevice
    \/ DeviceCallback
    \/ Top
    \/ WaitForFile
    \/ SinkSessionSetup
    \/ PollControl
    \/ PauseCheck
    \/ PauseGate
    \/ AfterPause
    \/ SinkReadPacket
    \/ WritePacket
    \/ EndOfStream

SpecSink == Init /\ [][NextSink]_vars

(* Loop regions: one file, a loop over its first two packets, a device change,
   the transition clock *)

LoopStreamFile == StreamFileCmd({"a"}, {0}, {50}, {NoDev})
LoopLoopRegion == LoopRegionCmd({LoopOff, LoopOn(0, 3)})
LoopChangeAudioDevice == ChangeAudioDeviceCmd({"Y"})
LoopSessionSetup == SessionSetup({"ok"}, {NoSettings}, {"ok"})
LoopReadPacket == ReadPacket({"ok"}, {"ok"})

NextLoop ==
    \/ LoopStreamFile
    \/ LoopLoopRegion
    \/ LoopChangeAudioDevice
    \/ DeviceCallback
    \/ Tick
    \/ Top
    \/ WaitForFile
    \/ LoopSessionSetup
    \/ PollControl
    \/ PauseCheck
    \/ PauseGate
    \/ AfterPause
    \/ LoopReadPacket
    \/ WritePacket
    \/ EndOfStream

SpecLoop == Init /\ [][NextLoop]_vars

(* Files that fail: a missing file, one that does not probe, one shorter than a
   packet, read and decode errors, a queued next track *)

FilesStreamFile == StreamFileCmd({"a", "s", "m", "g"}, {0}, {50}, {NoDev})
FilesNextTrack == NextTrackCmd({"c", NoPath}, {0}, {50})
FilesSessionSetup == SessionSetup({"ok"}, {NoSettings}, {"ok"})
FilesReadPacket == ReadPacket({"ok", "error"}, {"ok", "decode_error", "error"})

NextFiles ==
    \/ FilesStreamFile
    \/ FilesNextTrack
    \/ DeviceCallback
    \/ Tick
    \/ Top
    \/ WaitForFile
    \/ SetupFails
    \/ FilesSessionSetup
    \/ PollControl
    \/ PauseCheck
    \/ PauseGate
    \/ AfterPause
    \/ FilesReadPacket
    \/ WritePacket
    \/ EndOfStream
    \/ DrainWait

SpecFiles == Init /\ [][NextFiles]_vars

(* Commands that follow one another closely: two files, a loop region, a queued
   next track of the same format, pause and resume *)

SwitchStreamFile == StreamFileCmd({"a", "c"}, {0}, {50}, {NoDev})
SwitchLoopRegion == LoopRegionCmd({LoopOn(0, 3)})
SwitchNextTrack == NextTrackCmd({"a"}, {0}, {50})
SwitchSessionSetup == SessionSetup({"ok"}, {NoSettings}, {"ok"})
SwitchReadPacket == ReadPacket({"ok"}, {"ok"})

NextSwitch ==
    \/ Pause
    \/ Resume
    \/ SwitchStreamFile
    \/ SwitchLoopRegion
    \/ SwitchNextTrack
    \/ DeviceCallback
    \/ Top
    \/ WaitForFile
    \/ SwitchSessionSetup
    \/ PollControl
    \/ PauseCheck
    \/ PauseGate
    \/ AfterPause
    \/ SwitchReadPacket
    \/ WritePacket
    \/ EndOfStream

SpecSwitch == Init /\ [][NextSwitch]_vars

(* Pause and resume around one track and an empty next-track request, with the
   decode thread and the device callback scheduled fairly: the thread takes its
   next step when it is not blocked, the device keeps draining a playing sink *)

PausingStreamFile == StreamFileCmd({"a"}, {0}, {50}, {NoDev})
PausingNextTrack == NextTrackCmd({NoPath}, {0}, {50})
PausingSessionSetup == SessionSetup({"ok"}, {NoSettings}, {"ok"})
PausingReadPacket == ReadPacket({"ok"}, {"ok"})

PausingThread ==
    \/ Top
    \/ WaitForFile
    \/ PausingSessionSetup
    \/ PollControl
    \/ PauseCheck
    \/ PauseGate
    \/ AfterPause
    \/ PausingReadPacket
    \/ WritePacket
    \/ EndOfStream
    \/ DrainWait

NextPausing ==
    \/ Pause
    \/ Resume
    \/ PausingStreamFile
    \/ PausingNextTrack
    \/ DeviceCallback
    \/ PausingThread

SpecPausing ==
    Init /\ [][NextPausing]_vars /\ WF_vars(PausingThread) /\ WF_vars(DeviceCallback)

(* Requests with absent fields and seeks that fail: stream_file with or without
   a seek, a volume and a device, the reader refusing the initial seek *)

OptionalStreamFile == StreamFileCmd({"a"}, {3, NoneN}, {50, NoneN}, {NoDev, "Y"})
OptionalSessionSetup == SessionSetup({"ok", "reset", "error"}, {NoSettings}, {"ok"})
OptionalReadPacket == ReadPacket({"ok"}, {"ok"})

NextOptional ==
    \/ OptionalStreamFile
    \/ DeviceCallback
    \/ Top
    \/ WaitForFile
    \/ OptionalSessionSetup
    \/ PollControl
    \/ PauseCheck
    \/ PauseGate
    \/ AfterPause
    \/ OptionalReadPacket
    \/ WritePacket
    \/ EndOfStream

SpecOptional == Init /\ [][NextOptional]_vars

(* The waveform pass over files of two and of six channels, a long file, files
   that fail, a cancellation *)

PeaksGetPeaks == GetPeaks({"t", "w", "l", "b", "m", "g"})
PeaksNextPacket == NextPeaksPacket({"ok", "error"}, {"ok", "decode_error", "error"})

NextPeaks ==
    \/ PeaksGetPeaks
    \/ CancelPeaks
    \/ PeaksNextPacket
    \/ PeaksSamples

SpecPeaks == Init /\ [][NextPeaks]_vars

----------------------------------------------------------------------------
(* Properties *)

PacketLoop == {"poll", "pausecheck", "wait", "parked", "afterpause", "read", "write"}

\* C1: a packet is written to the ring buffer only if its timestamp is at or after
\* the session's seek_ts; a packet before seek_ts is dropped and adds nothing.
C1_WrittenAtOrAfterSeek ==
    /\ "write" \in out => (packet_ts # NoneN /\ packet_ts >= seek_ts)
    /\ (pc = "poll" /\ packet_ts # NoneN /\ packet_ts < seek_ts) => "write" \notin out

C1_Witness ==
    /\ pc = "poll" /\ packet_ts # NoneN /\ packet_ts < seek_ts
    /\ seek_ts > 0 /\ "write" \notin out

\* C2: a control event received in the packet loop, in the active poll or in the poll
\* after a pause, sets the cancellation flag; with the flag set the loop reads no
\* packet and writes nothing to the ring buffer until it has left the packet loop.
C2_CancelStopsSession ==
    [][ /\ (pc \in {"poll", "afterpause"} /\ applied' # applied /\ pc' # "crashed")
            => cancel_token'
        /\ (cancel_token /\ pc \in PacketLoop)
            => /\ pc' \in {"pausecheck", "wait", "parked", "afterpause", "top", "crashed"}
               /\ pos' = pos /\ packet_ts' = packet_ts
               /\ Len(ring') <= Len(ring) /\ "write" \notin out' ]_vars

C2_Witness ==
    /\ pc = "top" /\ cancel_token /\ is_paused /\ origin = "device"
    /\ decoding_active = PAUSED /\ applied >= 2

\* C3: control events are delivered at most once and in the order they were sent:
\* the channel holds exactly the events sent and not yet applied, oldest first, so
\* each receive point applies the event that follows the last one applied.
C3_FifoAtMostOnce ==
    /\ applied + Len(player_control) = sent
    /\ \A i \in 1..Len(player_control) : player_control[i].seq = applied + i

C3_Witness ==
    /\ applied = 2 /\ Len(player_control) = 1 /\ pc = "top" /\ is_paused /\ cancel_token

\* C4: when the decode loop finds PAUSED it pauses the sink, emits `paused` and
\* parks; it reads and writes no packet while paused, and leaves the gate only when
\* DecodingState is ACTIVE or has just been made ACTIVE.
C4_PauseGate ==
    [][ /\ (pc = "pausecheck" /\ pc' # pc /\ decoding_active = PAUSED)
            => (pc' = "wait" /\ is_paused' /\ ~sink_playing' /\ "paused" \in out')
        /\ (is_paused /\ pc \in {"wait", "parked"})
            => /\ pos' = pos /\ Len(ring') <= Len(ring)
               /\ pc' \notin {"wait", "parked"}
                    => (decoding_active = ACTIVE \/ decoding_active' = ACTIVE) ]_vars

\* C5: a device change issued while DecodingState is PAUSED leaves it PAUSED once
\* the decode loop has handled the event, and no packet is written until a resume.
C5_DeviceChangeKeepsPause ==
    keep_paused => (decoding_active = PAUSED /\ "write" \notin out)

TransitionSignals == {"song_change", "sample_offset", "reset_control"}

\* C6: a session entered as a transition sends no song_change, no sample-offset
\* reset and no reset-control pulse at its setup, starts its clock when its first
\* packet is decoded, and sends them only once the clock shows 5 seconds or more.
C6_TransitionDelay ==
    [][ /\ (pc = "setup" /\ pc' # pc /\ is_transition
              /\ FileOpens(path_str) /\ FileProbes(path_str))
            => (out' \cap TransitionSignals = {} /\ ~started_transition')
        /\ (pc = "setup" /\ pc' # pc /\ is_transition)
            => out' \cap TransitionSignals = {}
        /\ (pc = "read" /\ pc' = "write" /\ is_transition /\ ~started_transition)
            => (out' \cap TransitionSignals = {} /\ started_transition' /\ elapsed' = 0)
        /\ (pc = "read" /\ pc' # pc /\ out' \cap TransitionSignals # {})
            => (started_transition /\ elapsed >= TransitionSecs) ]_vars

C6_Witness ==
    /\ pc = "write" /\ origin = "next" /\ p = "b" /\ "song_change" \in out
    /\ ~is_transition

\* C7: at end-of-stream the next-track queue is emptied and its last request kept;
\* when that request names a path the next session is set up for that path with
\* is_transition set and is_reset clear, and the ring buffer keeps what it holds
\* (it is not flushed) up to the new session's writes.  The path is one of a file
\* that opens and probes.
C7_GaplessNextTrack ==
    [][ /\ (pc = "eos" /\ pc' # pc /\ next_track # <<>>
              /\ next_track[Len(next_track)].path # NoPath)
            => /\ path_str' = next_track[Len(next_track)].path
               /\ next_track' = <<>> /\ is_transition' /\ ~is_reset'
               /\ origin' = "next" /\ pc' = "top" /\ ring' = ring
        /\ (pc = "top" /\ pc' # pc /\ origin = "next" /\ path_str # NoPath)
            => (pc' = "setup" /\ is_transition' /\ ~is_reset' /\ ring' = ring)
        /\ (pc = "setup" /\ pc' # pc /\ origin = "next"
              /\ FileOpens(path_str) /\ FileProbes(path_str))
            => /\ p' = path_str /\ is_transition' /\ ~is_reset'
               /\ "open" \in out' \/ ring' = ring
        /\ (pc \in PacketLoop /\ origin = "next" /\ origin' = "next" /\ ring # <<>>)
            => ring' \in {ring, Tail(ring), Append(ring, sid)} ]_vars

C7_Witness ==
    /\ origin = "next" /\ p = "b" /\ "write" \in out
    /\ Len(ring) = 2 /\ ring[1] # ring[2]

\* C8: at end-of-stream with an empty next-track queue the decode loop waits for
\* the ring buffer to empty, pauses the sink and emits `stopped` before it returns
\* to the waiting state.
C8_StoppedOnEmptyQueue ==
    [][ /\ (pc = "eos" /\ pc' # pc /\ next_track = <<>>) => pc' = "drain"
        /\ (pc = "drain" /\ pc' # pc)
            => (ring = <<>> /\ ~sink_playing' /\ "stopped" \in out' /\ pc' = "top") ]_vars

\* C9: a session that has been set up plays on a sink of its channel count (so a
\* change of channel count has reopened the sink), at the session's rate unless
\* the session's device does not support that rate, and then the sink keeps a rate
\* of its own and the packets are resampled.
C9_SinkMatchesSession ==
    pc \in PacketLoop =>
        /\ audio_output.state = "ok"
        /\ audio_output.ch = FileChannels(p)
        /\ \/ audio_output.rate = FileRate(p)
           \/ ~SupportsSampleRate(previous_audio_device_name, FileRate(p))

C9_Witness ==
    /\ pc = "poll" /\ p = "b" /\ audio_output.dev = "Y"
    /\ audio_output.rate = 44100 /\ "open" \notin out /\ sid = 3
    /\ "audio_device_changed" \in out

\* C10: at session setup the sink is (re)opened if and only if it is absent, or the
\* device name differs from the previous session's, or the device supports the
\* session's rate and the rate differs from the previous session's, or the channel
\* count differs from the previous session's.
C10_OpensSinkIff ==
    [][ (pc = "setup" /\ pc' # pc)
            => ("open" \in out' <=>
                    \/ audio_output.state # "ok"
                    \/ previous_audio_device_name' # previous_audio_device_name
                    \/ /\ SupportsSampleRate(previous_audio_device_name',
                                             FileRate(path_str))
                       /\ FileRate(path_str) # previous_sample_rate
                    \/ FileChannels(path_str) # previous_channels) ]_vars

\* C11: while a loop end-position is set, no packet with a timestamp above
\* end_pos_frame_idx is written to the ring buffer.
C11_NoWritePastLoopEnd ==
    ("write" \in out /\ end_pos # NoneN) => written.ts <= end_pos_frame_idx

\* C12: every wrap from the loop end to the loop start gets a sample-offset reset
\* of its own: when the reader wraps, no reset is still owed from before.
C12_ResetAtEveryWrap ==
    [][ (pc = "read" /\ pc' # pc /\ pos < FilePackets(p)
           /\ LoopWraps(end_pos, pos * PacketDur(p), end_pos_frame_idx))
            => ~(is_transition /\ started_transition) ]_vars

HandledInPacketLoop(kind) ==
    /\ pc \in {"poll", "afterpause"}
    /\ player_control # <<>>
    /\ RecvEvent(player_control).kind = kind
    /\ applied' # applied
    /\ pc' # "crashed"

\* the packet the session reloaded by a handler starts at
ReloadsAt == SeekPos(p, SeekTs(p, seek', "ok"))

\* C16: after loop_region{enabled:true} and loop_region{enabled:false} the
\* reloaded session starts within one packet of the position playback would have
\* had if no loop had been enabled.
C16_LoopRoundTrip ==
    [][ (HandledInPacketLoop("LoopRegion") /\ ~RecvEvent(player_control).enabled
           /\ linear # NoneN)
            => (ReloadsAt >= linear - 1 /\ ReloadsAt <= linear + 1) ]_vars

\* C17: the session reloaded by a ChangeDevice command starts within one packet
\* of the position playback had reached when the command was handled.
C17_DeviceChangeKeepsPosition ==
    [][ HandledInPacketLoop("ChangeAudioDevice")
            => (ReloadsAt >= Playhead - 1 /\ ReloadsAt <= Playhead + 1) ]_vars

Commanded == {"stream", "loop", "device"}

\* C14: across a session boundary made by StreamFile, LoopRegion or ChangeDevice
\* the last packet the old session wrote has ramp_down = packet.dur and the first
\* packet the new session writes has ramp_up = packet.dur.
C14_RampsAtBoundary ==
    [][ /\ (pc = "setup" /\ pc' = "poll" /\ origin \in Commanded /\ written # NoWrite)
            => written.ramp_down = PacketDur(p)
        /\ (pc = "write" /\ "write" \in out' /\ written = NoWrite /\ sid > 1
              /\ origin \in Commanded)
            => written'.ramp_up = PacketDur(p) ]_vars

\* C15: with the frame count known, a written packet with ts >= total_frames -
\* packet.dur has ramp_down = packet.dur and a written packet with ts < packet.dur
\* has ramp_up = packet.dur, for files of one packet and files shorter than a packet
\* too.
C15_RampsAtFileEnds ==
    ("write" \in out /\ FileKnowsFrames(p)) =>
        /\ written.ts + PacketDur(p) >= FileFrames(p)
              => written.ramp_down = PacketDur(p)
        /\ written.ts < PacketDur(p) => written.ramp_up = PacketDur(p)

\* C18: a session started by a StreamFile command sends a reset-control pulse and
\* a sample-offset reset of seek_ts * channels at its setup.
C18_StreamFileResetsOffset ==
    [][ (pc = "setup" /\ pc' = "poll" /\ origin = "stream")
            => /\ {"reset_control", "sample_offset"} \subseteq out'
               /\ offset' = seek_ts' * FileChannels(p') ]_vars

\* C19: a file that cannot be opened or probed ends the session without a
\* song_change and leaves the decode loop at its head with no path, from where it
\* waits for the next command.
C19_BadFileAbandoned ==
    [][ (pc = "setup" /\ pc' # pc /\ ~(FileOpens(path_str) /\ FileProbes(path_str)))
            => (pc' = "top" /\ path_str' = NoPath /\ "song_change" \notin out') ]_vars

\* C20: in the packet loop a decode error is skipped and the session goes on with
\* the next packet; the end of the stream goes to the next-track flow; any other
\* read or decode error leaves the packet loop with no path set, nothing written,
\* and the loop head then waits for a command.
C20_ErrorsInPacketLoop ==
    [][ /\ (pc = "read" /\ "decode_error" \in out')
            => (pc' = "poll" /\ pos' = pos + 1 /\ sid' = sid /\ p' = p)
        /\ (pc = "read" /\ pc' # pc) => (pc' = "eos" <=> pos >= FilePackets(p))
        /\ (pc = "read" /\ pc' = "top")
            => (path_str' = NoPath /\ ring' = ring /\ sid' = sid)
        /\ (pc = "top" /\ pc' # pc /\ path_str = NoPath) => pc' = "recv" ]_vars

C20_Witness ==
    /\ pc = "write" /\ p = "a" /\ pos = 3 /\ written.ts = 0 /\ ~cancel_token

\* C21: in get_peaks the peaks array is never longer than expected_peaks_size,
\* whatever the channel count of the file, and every progressive `waveform` event
\* is expected_peaks_size long: the peaks so far, then zeros.
C21_PeaksWithinExpected ==
    /\ peaks_pc \in {"next", "samples"} => peaks <= expected_peaks_size
    /\ waveform # NoWaveform =>
          /\ waveform.values + waveform.zeros = expected_peaks_size
          /\ waveform.values = peaks

\* C22: every decoded sample is in exactly one window of 4000 samples and every
\* full window gives one value: when get_peaks returns the array at end-of-stream
\* after N decoded samples, no sample is outside the windows and the array's
\* length is within 1 of N / 4000.
C22_OnePeakPerWindow ==
    (peaks_pc = "done" /\ result = "peaks") =>
        /\ decoded = peaks * WindowSize + window
        /\ decoded \div WindowSize - peaks <= 1
        /\ peaks - decoded \div WindowSize <= 1

\* C23: with the cancellation token set, the next packet that get_peaks reads is not
\* put through the window: the step adds nothing to peaks, sends no `waveform`
\* event, and ends the pass with `cancelled` unless the reader or the decoder
\* fails first; `cancelled` is returned only with the token set, the peaks only
\* when the reader is at end-of-stream, and a pass that has returned does nothing
\* more.
C23_CancelledAtNextPacket ==
    [][ /\ (peaks_pc = "next" /\ peaks_cancel) =>
              /\ peaks_pc' # "samples"
              /\ peaks' = peaks /\ window' = window
              /\ waveform' = NoWaveform
              /\ result' \in {"cancelled", "peaks", "error", "none"}
              /\ result' = "none" => skipped' = skipped + 1
        /\ (result' = "cancelled" /\ result # "cancelled") => peaks_cancel
        /\ (result' = "peaks" /\ result # "peaks") =>
              (peaks_pc = "next" /\ reader >= FilePackets(peaks_file))
        /\ peaks_pc = "done" =>
              (peaks' = peaks /\ result' = result /\ waveform' = NoWaveform) ]_vars

C23_Witness ==
    /\ peaks_pc = "done" /\ result = "cancelled"
    /\ peaks > 0 /\ reader < FilePackets(peaks_file)

\* C24: wherever the decode thread is suspended (in the receive on the control
\* channel, parked on the pause gate, in a write to a full ring buffer, asleep in
\* the drain wait) it holds neither the lock on the control receiver nor the lock
\* on the audio output.
C24_NoLockWhileSuspended ==
    Suspended => (~HoldsReceiverLock(pc) /\ ~HoldsOutputLock(pc))

\* C25: a StreamFile whose optional fields are absent is handled and the decode
\* loop goes on: without a seek it is taken as a seek of 0, without a volume the
\* volume stays, without a device the device name stays.
C25_AbsentFieldsHandled ==
    [][ (applied' # applied /\ RecvEvent(player_control).kind = "StreamFile") =>
          LET req == RecvEvent(player_control)
          IN  /\ pc' # "crashed"
              /\ req.seek = NoneN => seek' = 0
              /\ req.volume = NoneN => volume' = volume
              /\ req.dev = NoDev => audio_device_name' = audio_device_name ]_vars

\* C28: when the initial seek fails with ResetRequired the session takes the first
\* supported track and a seek_ts of 0, when it fails otherwise a seek_ts of 0; in
\* such a session every decoded packet that the thread comes to write is written,
\* none is dropped for lying before the seek position.
C28_FailedSeekDropsNothing ==
    [][ /\ (pc = "setup" /\ pc' = "poll" /\ seek_result' = "reset") =>
              /\ track_id' = FirstSupportedTrack(FileTracks(p'))
              /\ seek_ts' = 0
        /\ (pc = "setup" /\ pc' = "poll" /\ seek_result' = "error") => seek_ts' = 0
        /\ (pc = "write" /\ pc' = "poll" /\ seek_result \in {"reset", "error"}
              /\ ~cancel_token) => "write" \in out' ]_vars

C28_Witness ==
    /\ seek_result \in {"reset", "error"} /\ seek > 0
    /\ "write" \in out /\ written.ts < ToTs(seek, FileRate(p))

\* C26: every session start emits `audio_device_changed`, the start of a gapless
\* transition session and of a session on the same device as the one before
\* included.
C26_DeviceEventEverySession ==
    [][ (pc = "setup" /\ sid' = sid + 1) => "audio_device_changed" \in out' ]_vars

\* C27: a session starts on the system default device when follow_system_output
\* is set; with the flag off, the first session after a change_audio_device
\* starts on the device the command named: `audio_device_changed` is emitted with
\* that name and the sink, when open, is on that device.
C27_DeviceOfSession ==
    [][ (pc = "setup" /\ sid' = sid + 1) =>
          /\ follow_system_output' => previous_audio_device_name' = DefaultDevice
          /\ (~follow_system_output' /\ origin = "device") =>
                /\ previous_audio_device_name' = GetDeviceByName(audio_device_name)
                /\ "audio_device_changed" \in out'
                /\ audio_output'.state = "ok" =>
                      audio_output'.dev = GetDeviceByName(audio_device_name) ]_vars

\* C29: a session entered by a gapless transition, with its sink open and no
\* control command handled in it, has sent `song_change` with the sample-offset
\* reset and cleared is_transition by the time its reader reports end-of-stream,
\* however few packets the track has; after that point nothing of the session can
\* send them.
C29_TransitionCompletes ==
    [][ (pc = "read" /\ pc' = "eos" /\ origin = "next") => ~is_transition ]_vars

\* C30: a packet is written with a non-zero ramp_down only when its timestamp is
\* at or past total_frames - packet.dur, with a non-zero ramp_up only when its
\* timestamp is below packet.dur; a packet between the two, the packets around a
\* loop wrap among them, is written with both ramps 0, and no packet with both
\* ramps non-zero.
C30_RampsOnlyAtEnds ==
    written.ts # NoneN =>
        /\ written.ramp_down # 0 =>
              (FileKnowsFrames(p) /\ written.ts >= FileFrames(p) - PacketDur(p))
        /\ written.ramp_up # 0 => written.ts < PacketDur(p)
        /\ (written.ts >= PacketDur(p) /\ written.ts < FileFrames(p) - PacketDur(p))
              => (written.ramp_up = 0 /\ written.ramp_down = 0)
        /\ ~(written.ramp_up # 0 /\ written.ramp_down # 0)

C30_Witness ==
    /\ end_pos # NoneN /\ started_transition
    /\ "write" \in out
    /\ written.ts = PacketDur(p) /\ written.ramp_up = 0 /\ written.ramp_down = 0

\* a StreamFile has been received and the session for its path is not set up yet
PendingStreamFile == path_str # NoPath /\ origin = "stream"

\* C31: a received StreamFile is not lost: while its path waits for the session
\* setup, a step of the decode loop either leaves the path as it is, or sets up the
\* session for it, or receives another StreamFile; a LoopRegion or ChangeDevice
\* event received in between does not change the path.
C31_StreamFileNotLost ==
    [][ (PendingStreamFile /\ pc' # "crashed") =>
          \/ path_str' = path_str
          \/ pc = "setup" /\ p' = path_str
          \/ applied' # applied /\ RecvEvent(player_control).kind = "StreamFile" ]_vars

\* C32: a handled StreamFile leaves no loop end-position set, in the waiting state
\* as in the packet loop, and no packet read in the session it starts wraps the
\* reader back to a loop start.
C32_StreamFileClearsLoop ==
    [][ /\ (applied' # applied /\ RecvEvent(player_control).kind = "StreamFile"
              /\ pc' # "crashed") => end_pos' = NoneN
        /\ (pc = "read" /\ pc' = "write" /\ origin = "stream") =>
              ~LoopWraps(end_pos, packet_ts', end_pos_frame_idx) ]_vars

C34_WaitingStateHandlesAll ==
    [][ (pc = "recv" /\ applied' # applied) => pc' = "top" ]_vars

\* C35: a failed sink open does not stick: a session that starts while
\* audio_output holds the error of a failed open tries to open the sink again,
\* also when device, sample rate and channel count are those of the failed
\* session.
C35_FailedOpenRetried ==
    [][ (pc = "setup" /\ sid' = sid + 1 /\ audio_output.state = "err") =>
          "open" \in out' ]_vars

\* a pause has been commanded and the sink still plays, with the decode thread in
\* the packet loop, at end-of-stream or in the drain wait, or waiting for a
\* command while the ring buffer holds samples
PauseOutstanding ==
    /\ decoding_active = PAUSED
    /\ audio_output.state = "ok" /\ sink_playing
    /\ \/ pc \in PacketLoop
       \/ pc \in {"eos", "drain"}
       \/ pc \in {"top", "recv"} /\ ring # <<>>

\* C36: after a pause, wherever the decode thread was (decoding, in the drain wait
\* at end-of-stream, waiting for a command with samples still in the ring
\* buffer), the sink is eventually paused with `paused` emitted, unless
\* decoding_active goes back to ACTIVE first.
C36_PauseReachesSink ==
    PauseOutstanding ~>
        (decoding_active = ACTIVE \/ (~sink_playing /\ "paused" \in out))

====
